---- MODULE Spec2Model ----
(***************************************************************************)
(* Model of src/main.py: the Cloud Function sync_knowledge_base, which     *)
(* reconciles a storage bucket with the ElevenLabs knowledge base of one   *)
(* agent (list, upload, agent update, delete), and of the remote service   *)
(* it talks to.                                                            *)
(*                                                                         *)
(* Names are sequences of path components: <<"d","a">> is "d/a".           *)
(* Document ids are positive integers handed out by the remote service.    *)
(* Python's None is NoName for a name, NoId for an id, NoCursor for a      *)
(* cursor; an HTTP call that raises instead of answering has the status    *)
(* Raised.                                                                 *)
(***************************************************************************)
EXTENDS Integers, Sequences, FiniteSets, TLC

VARIABLES
    bucket,               \* storage backend: the set of object names
    remote,               \* remote service: its documents, in listing order
    nextId,               \* remote service: the next id it assigns
    srvPageLen,           \* remote service: documents it puts on one page
    srvSendsCursor,       \* remote service: whether has_more pages carry a next_cursor
    agent_kb,             \* remote service: the agent's knowledge_base list
    triggered_file_name,  \* cloud_event.data.get("name")
    event_type,           \* cloud_event["type"]
    pc,                   \* position of the run in sync_knowledge_base
    gcs_map,              \* names of list_blobs(), in dict order
    documents,            \* get_elevenlabs_docs: the dict being accumulated
    next_cursor,          \* get_elevenlabs_docs: the cursor of the next request
    served,               \* the bodies of the 200 answers to the page requests
    el_docs,              \* the dict get_elevenlabs_docs returned
    i,                    \* index in gcs_map of the loop of lines 179-193
    valid_docs,           \* list of {'id','name'}
    ids_to_delete,        \* list of ids
    j,                    \* index in ids_to_delete of the loop of lines 205-206
    calls,                \* every remote call of the run, in order
    result,               \* what sync_knowledge_base returned
    scratch,              \* the temporary files that exist on the local disk
    temp_local_filename,  \* upload_file_to_elevenlabs: the file mkstemp made
    other                 \* the local state of the other invocation, if there is one

vars == <<bucket, remote, nextId, srvPageLen, srvSendsCursor, agent_kb,
          triggered_file_name, event_type, pc, gcs_map, documents, next_cursor,
          served, el_docs, i, valid_docs, ids_to_delete, j, calls, result,
          scratch, temp_local_filename, other>>

(***************************************************************************)
(* Bounds of the model                                                     *)
(***************************************************************************)
MaxDocs == 2        \* documents on the remote service when the run starts
MaxRequests == 4    \* page requests one run of get_elevenlabs_docs may issue

(***************************************************************************)
(* Values                                                                  *)
(***************************************************************************)
NoName == <<>>
NoId == 0
NoCursor == 0
Raised == 0
PAGE_SIZE == 100
NoFile == 0
\* No other invocation.
Idle == [pc |-> "none"]

FINALIZED == "google.cloud.storage.object.v1.finalized"
DELETED == "google.cloud.storage.object.v1.deleted"
EventTypes == {FINALIZED, DELETED}

\* The object names of the bucket, in the order list_blobs yields them.
NameOrder == << <<"a">>, <<"b">>, <<"d", "a">> >>
Names == {NameOrder[k] : k \in 1..Len(NameOrder)}
\* The names of the remote documents: upload_file_to_elevenlabs registers a
\* document under the base name of its object.
DocNames == {<<n[Len(n)]>> : n \in Names}
PageLens == {1, 2}

Min(a, b) == IF a < b THEN a ELSE b

(***************************************************************************)
(* Python dict: a sequence of <<key, value>> entries with distinct keys,   *)
(* in insertion order.                                                     *)
(***************************************************************************)
DictHas(d, k) == \E n \in 1..Len(d) : d[n][1] = k

DictGet(d, k) == d[CHOOSE n \in 1..Len(d) : d[n][1] = k][2]

\* A mutation of DictPut: the first id listed under a name is kept.
DictPutFirstWins(d, k, v) ==
    IF DictHas(d, k) THEN d ELSE Append(d, <<k, v>>)

\* d[k] = v: a new key is appended, an existing key keeps its place.
DictPut(d, k, v) ==
    IF DictHas(d, k)
    THEN [n \in 1..Len(d) |-> IF d[n][1] = k THEN <<k, v>> ELSE d[n]]
    ELSE Append(d, <<k, v>>)

Truthy(x) == x # 0

(***************************************************************************)
(* The remote service                                                      *)
(***************************************************************************)
NumPages ==
    IF Len(remote) = 0 THEN 1 ELSE (Len(remote) + srvPageLen - 1) \div srvPageLen

PageDocs(k) ==
    SubSeq(remote, (k - 1) * srvPageLen + 1, Min(k * srvPageLen, Len(remote)))

\* The body of a 200 answer to GET /convai/knowledge-base: a request without
\* cursor gets the first page, a request with the cursor k gets page k.
ServePage(params) ==
    LET k == IF "cursor" \in DOMAIN params THEN params.cursor ELSE 1
    IN  [documents |-> PageDocs(k),
         has_more |-> k < NumPages,
         next_cursor |-> IF k < NumPages /\ srvSendsCursor THEN k + 1 ELSE NoCursor]

\* os.path.basename(blob_name)
Basename(blob_name) == <<blob_name[Len(blob_name)]>>

\* The remote documents after POST /convai/knowledge-base/file answered 200.
Uploaded(docs, id, blob_name) ==
    Append(docs, [id |-> id, name |-> Basename(blob_name)])

\* The remote documents after DELETE /convai/knowledge-base/{doc_id} succeeded.
Removed(docs, doc_id) == SelectSeq(docs, LAMBDA d : d.id # doc_id)

(***************************************************************************)
(* get_elevenlabs_docs                                                     *)
(***************************************************************************)
\* params = {"page_size": 100}; if next_cursor: params["cursor"] = next_cursor
Params(cursor) ==
    IF Truthy(cursor)
    THEN [page_size |-> PAGE_SIZE, cursor |-> cursor]
    ELSE [page_size |-> PAGE_SIZE]

RECURSIVE MergeDocs(_, _)
\* for doc in data.get("documents", []): documents[doc["name"]] = doc["id"]
MergeDocs(d, docs) ==
    IF docs = <<>> THEN d
    ELSE MergeDocs(DictPut(d, Head(docs).name, Head(docs).id), Tail(docs))

ListRequests == SelectSeq(calls, LAMBDA c : c.op = "list")

GetPageOk ==
    /\ pc = "list"
    /\ Len(ListRequests) < MaxRequests
    /\ LET params == Params(next_cursor)
           data == ServePage(params)
           merged == MergeDocs(documents, data.documents)
       IN  /\ calls' = Append(calls, [op |-> "list", arg |-> params, status |-> 200])
           /\ served' = Append(served, data)
           /\ documents' = merged
           /\ IF ~ data.has_more
              THEN /\ el_docs' = merged
                   /\ pc' = "reconcile"
                   /\ UNCHANGED next_cursor
              ELSE /\ next_cursor' = data.next_cursor
                   /\ UNCHANGED <<pc, el_docs>>
    /\ UNCHANGED <<bucket, remote, nextId, srvPageLen, srvSendsCursor, agent_kb,
                   triggered_file_name, event_type, gcs_map, i, valid_docs,
                   ids_to_delete, j, result>>
    /\ UNCHANGED <<scratch, temp_local_filename, other>>

\* A mutation of GetPageError: a failed page throws the accumulated entries away.
GetPageErrorDropsAll ==
    /\ pc = "list"
    /\ Len(ListRequests) < MaxRequests
    /\ calls' = Append(calls, [op |-> "list", arg |-> Params(next_cursor), status |-> 500])
    /\ el_docs' = <<>>
    /\ pc' = "reconcile"
    /\ UNCHANGED <<bucket, remote, nextId, srvPageLen, srvSendsCursor, agent_kb,
                   triggered_file_name, event_type, gcs_map, documents, next_cursor,
                   served, i, valid_docs, ids_to_delete, j, result>>
    /\ UNCHANGED <<scratch, temp_local_filename, other>>

\* response.status_code != 200: break, return documents
GetPageError ==
    /\ pc = "list"
    /\ Len(ListRequests) < MaxRequests
    /\ calls' = Append(calls, [op |-> "list", arg |-> Params(next_cursor), status |-> 500])
    /\ el_docs' = documents
    /\ pc' = "reconcile"
    /\ UNCHANGED <<bucket, remote, nextId, srvPageLen, srvSendsCursor, agent_kb,
                   triggered_file_name, event_type, gcs_map, documents, next_cursor,
                   served, i, valid_docs, ids_to_delete, j, result>>
    /\ UNCHANGED <<scratch, temp_local_filename, other>>

\* requests.get raises: the exception leaves sync_knowledge_base.
GetPageRaises ==
    /\ pc = "list"
    /\ Len(ListRequests) < MaxRequests
    /\ calls' = Append(calls, [op |-> "list", arg |-> Params(next_cursor), status |-> Raised])
    /\ pc' = "aborted"
    /\ UNCHANGED <<bucket, remote, nextId, srvPageLen, srvSendsCursor, agent_kb,
                   triggered_file_name, event_type, gcs_map, documents, next_cursor,
                   served, el_docs, i, valid_docs, ids_to_delete, j, result>>
    /\ UNCHANGED <<scratch, temp_local_filename, other>>

(***************************************************************************)
(* upload_file_to_elevenlabs, as sync_knowledge_base sees it: the id the   *)
(* call returns for the status the POST got.                               *)
(***************************************************************************)
UploadResult(status) == IF status = 200 THEN nextId ELSE NoId

(***************************************************************************)
(* sync_knowledge_base                                                     *)
(***************************************************************************)
\* list(bucket.list_blobs()), gcs_map = {blob.name: blob ...}
ListBlobs ==
    /\ pc = "start"
    /\ gcs_map' = SelectSeq(NameOrder, LAMBDA n : n \in bucket)
    /\ pc' = "list"
    /\ UNCHANGED <<bucket, remote, nextId, srvPageLen, srvSendsCursor, agent_kb,
                   triggered_file_name, event_type, documents, next_cursor, served,
                   el_docs, i, valid_docs, ids_to_delete, j, calls, result>>
    /\ UNCHANGED <<scratch, temp_local_filename, other>>

\* A mutation of IsChanged: the event type is not looked at.
IsChangedAnyEvent(filename, trigger, type) == filename = trigger

\* filename == triggered_file_name and event_type == "...finalized"
IsChanged(filename, trigger, type) == filename = trigger /\ type = FINALIZED

\* A mutation of AddValid: the entry is added whatever the upload returned.
AddValidUnchecked(valid, new_id, filename) ==
    Append(valid, [id |-> new_id, name |-> filename])

\* if new_id: valid_docs.append({'id': new_id, 'name': filename})
AddValid(valid, new_id, filename) ==
    IF Truthy(new_id) THEN Append(valid, [id |-> new_id, name |-> filename]) ELSE valid

\* A mutation of MarkSuperseded: the old id is never marked.
MarkSupersededNever(dels, new_id, old_id) == dels

\* if new_id: ids_to_delete.append(el_docs[filename])
MarkSuperseded(dels, new_id, old_id) ==
    IF Truthy(new_id) THEN Append(dels, old_id) ELSE dels

RECURSIVE MarkRemovedSkipsFirst(_, _, _)
\* A mutation of MarkRemoved: the first entry of el_docs is not looked at.
MarkRemovedSkipsFirst(dels, docs, blobs) ==
    IF Len(docs) <= 1 THEN dels
    ELSE LET e == docs[Len(docs)]
             rest == MarkRemovedSkipsFirst(dels, SubSeq(docs, 1, Len(docs) - 1), blobs)
         IN  IF \E n \in 1..Len(blobs) : blobs[n] = e[1] THEN rest ELSE Append(rest, e[2])

RECURSIVE MarkRemovedAll(_, _, _)
\* A mutation of MarkRemoved: every listed id is marked, in the bucket or not.
MarkRemovedAll(dels, docs, blobs) ==
    IF docs = <<>> THEN dels
    ELSE MarkRemovedAll(Append(dels, Head(docs)[2]), Tail(docs), blobs)

RECURSIVE MarkRemoved(_, _, _)
\* for filename, doc_id in el_docs.items():
\*     if filename not in gcs_map: ids_to_delete.append(doc_id)
MarkRemoved(dels, docs, blobs) ==
    IF docs = <<>> THEN dels
    ELSE LET e == Head(docs)
         IN  MarkRemoved(IF \E n \in 1..Len(blobs) : blobs[n] = e[1]
                         THEN dels ELSE Append(dels, e[2]),
                         Tail(docs), blobs)

\* A mutation of NextStep: the documents are deleted before the agent is updated.
NextStepDeleteFirst(at, dels) ==
    CASE at = "reconcile" -> IF dels # <<>> THEN "delete" ELSE "probe"
      [] at = "delete" -> "probe"
      [] at = "probe" -> "patch"
      [] at = "patch" -> "return"

\* The order of lines 200-208: update_agent_knowledge (probe, PATCH), then the
\* deletions if there are any, then the return.
NextStep(at, dels) ==
    CASE at = "reconcile" -> "probe"
      [] at = "probe" -> "patch"
      [] at = "patch" -> IF dels # <<>> THEN "delete" ELSE "return"
      [] at = "delete" -> "return"

\* else: valid_docs.append({'id': el_docs[filename], 'name': filename})
KeepExisting ==
    /\ pc = "reconcile"
    /\ i <= Len(gcs_map)
    /\ DictHas(el_docs, gcs_map[i])
    /\ ~ IsChanged(gcs_map[i], triggered_file_name, event_type)
    /\ valid_docs' = Append(valid_docs,
                            [id |-> DictGet(el_docs, gcs_map[i]), name |-> gcs_map[i]])
    /\ i' = i + 1
    /\ UNCHANGED <<bucket, remote, nextId, srvPageLen, srvSendsCursor, agent_kb,
                   triggered_file_name, event_type, pc, gcs_map, documents,
                   next_cursor, served, el_docs, ids_to_delete, j, calls, result>>
    /\ UNCHANGED <<scratch, temp_local_filename, other>>

\* The name mkstemp gives the file it creates: one no existing file has.
FreshFile(files) == CHOOSE f \in 1..(Cardinality(files) + 1) : f \notin files

\* finally: if os.path.exists(temp_local_filename): os.remove(temp_local_filename)
Finally(files, f) == files \ {f}

\* upload_file_to_elevenlabs is entered for gcs_map[i], a new or a changed
\* file: _, temp_local_filename = tempfile.mkstemp()
Mkstemp ==
    /\ pc = "reconcile"
    /\ i <= Len(gcs_map)
    /\ \/ ~ DictHas(el_docs, gcs_map[i])
       \/ IsChanged(gcs_map[i], triggered_file_name, event_type)
    /\ temp_local_filename' = FreshFile(scratch)
    /\ scratch' = scratch \cup {FreshFile(scratch)}
    /\ pc' = "upload"
    /\ UNCHANGED <<bucket, remote, nextId, srvPageLen, srvSendsCursor, agent_kb,
                   triggered_file_name, event_type, gcs_map, documents, next_cursor,
                   served, el_docs, i, valid_docs, ids_to_delete, j, calls, result,
                   other>>

\* The changed file: upload the new version, and on success mark the old id.
ReUpload ==
    /\ pc = "upload"
    /\ i <= Len(gcs_map)
    /\ DictHas(el_docs, gcs_map[i])
    /\ IsChanged(gcs_map[i], triggered_file_name, event_type)
    /\ \E status \in {200, 500} :
        LET new_id == UploadResult(status)
        IN  /\ calls' = Append(calls, [op |-> "upload", arg |-> gcs_map[i],
                                       status |-> status, ret |-> new_id])
            /\ remote' = IF status = 200 THEN Uploaded(remote, nextId, gcs_map[i]) ELSE remote
            /\ nextId' = IF status = 200 THEN nextId + 1 ELSE nextId
            /\ valid_docs' = AddValid(valid_docs, new_id, gcs_map[i])
            /\ ids_to_delete' = MarkSuperseded(ids_to_delete, new_id,
                                               DictGet(el_docs, gcs_map[i]))
    /\ scratch' = Finally(scratch, temp_local_filename)
    /\ temp_local_filename' = NoFile
    /\ i' = i + 1
    /\ pc' = "reconcile"
    /\ UNCHANGED <<bucket, srvPageLen, srvSendsCursor, agent_kb, triggered_file_name,
                   event_type, gcs_map, documents, next_cursor, served, el_docs,
                   j, result, other>>

\* The new file: upload it.
UploadNew ==
    /\ pc = "upload"
    /\ i <= Len(gcs_map)
    /\ ~ DictHas(el_docs, gcs_map[i])
    /\ \E status \in {200, 500} :
        LET new_id == UploadResult(status)
        IN  /\ calls' = Append(calls, [op |-> "upload", arg |-> gcs_map[i],
                                       status |-> status, ret |-> new_id])
            /\ remote' = IF status = 200 THEN Uploaded(remote, nextId, gcs_map[i]) ELSE remote
            /\ nextId' = IF status = 200 THEN nextId + 1 ELSE nextId
            /\ valid_docs' = AddValid(valid_docs, new_id, gcs_map[i])
    /\ scratch' = Finally(scratch, temp_local_filename)
    /\ temp_local_filename' = NoFile
    /\ i' = i + 1
    /\ pc' = "reconcile"
    /\ UNCHANGED <<bucket, srvPageLen, srvSendsCursor, agent_kb, triggered_file_name,
                   event_type, gcs_map, documents, next_cursor, served, el_docs,
                   ids_to_delete, j, result, other>>

\* A mutation of UploadRaises: the file is removed on the return paths only.
UploadRaisesLeavesFile ==
    /\ pc = "upload"
    /\ calls' = Append(calls, [op |-> "upload", arg |-> gcs_map[i],
                               status |-> Raised, ret |-> NoId])
    /\ temp_local_filename' = NoFile
    /\ pc' = "aborted"
    /\ UNCHANGED <<bucket, remote, nextId, srvPageLen, srvSendsCursor, agent_kb,
                   triggered_file_name, event_type, gcs_map, documents, next_cursor,
                   served, el_docs, i, valid_docs, ids_to_delete, j, result>>
    /\ UNCHANGED <<scratch, other>>

\* blob.download_to_filename or requests.post raises in the upload of gcs_map[i]:
\* the finally clause runs and the exception leaves sync_knowledge_base.
UploadRaises ==
    /\ pc = "upload"
    /\ calls' = Append(calls, [op |-> "upload", arg |-> gcs_map[i],
                               status |-> Raised, ret |-> NoId])
    /\ scratch' = Finally(scratch, temp_local_filename)
    /\ temp_local_filename' = NoFile
    /\ pc' = "aborted"
    /\ UNCHANGED <<bucket, remote, nextId, srvPageLen, srvSendsCursor, agent_kb,
                   triggered_file_name, event_type, gcs_map, documents, next_cursor,
                   served, el_docs, i, valid_docs, ids_to_delete, j, result, other>>

\* The loop of lines 195-198, after the loop of lines 179-193 has ended.
MarkDeletions ==
    /\ pc = "reconcile"
    /\ i > Len(gcs_map)
    /\ ids_to_delete' = MarkRemoved(ids_to_delete, el_docs, gcs_map)
    /\ pc' = NextStep("reconcile", ids_to_delete')
    /\ UNCHANGED <<bucket, remote, nextId, srvPageLen, srvSendsCursor, agent_kb,
                   triggered_file_name, event_type, gcs_map, documents, next_cursor,
                   served, el_docs, i, valid_docs, j, calls, result>>
    /\ UNCHANGED <<scratch, temp_local_filename, other>>

(***************************************************************************)
(* update_agent_knowledge                                                  *)
(***************************************************************************)
\* new_kb_config: one entry per element of valid_docs, in its order.
KbConfig(valid) ==
    [n \in 1..Len(valid) |->
        [type |-> "file", id |-> valid[n].id, name |-> valid[n].name,
         usage_mode |-> "auto"]]

\* A mutation of Probe: an exception of the GET is not caught.
ProbeAbortsOnException ==
    /\ pc = "probe"
    /\ \E status \in {200, 500, Raised} :
        /\ calls' = Append(calls, [op |-> "probe", arg |-> NoId, status |-> status])
        /\ pc' = IF status = Raised THEN "aborted" ELSE NextStep("probe", ids_to_delete)
    /\ UNCHANGED <<bucket, remote, nextId, srvPageLen, srvSendsCursor, agent_kb,
                   triggered_file_name, event_type, gcs_map, documents, next_cursor,
                   served, el_docs, i, valid_docs, ids_to_delete, j, result>>
    /\ UNCHANGED <<scratch, temp_local_filename, other>>

\* The GET of the agent: a non-200 status and an exception are only logged.
Probe ==
    /\ pc = "probe"
    /\ \E status \in {200, 500, Raised} :
        calls' = Append(calls, [op |-> "probe", arg |-> NoId, status |-> status])
    /\ pc' = NextStep("probe", ids_to_delete)
    /\ UNCHANGED <<bucket, remote, nextId, srvPageLen, srvSendsCursor, agent_kb,
                   triggered_file_name, event_type, gcs_map, documents, next_cursor,
                   served, el_docs, i, valid_docs, ids_to_delete, j, result>>
    /\ UNCHANGED <<scratch, temp_local_filename, other>>

\* The PATCH of the agent: on 200 the remote service replaces the agent's
\* knowledge_base by the body's list, on any other status it leaves it alone.
Patch ==
    /\ pc = "patch"
    /\ \E status \in {200, 500} :
        /\ calls' = Append(calls, [op |-> "patch", arg |-> KbConfig(valid_docs),
                                   status |-> status])
        /\ agent_kb' = IF status = 200 THEN KbConfig(valid_docs) ELSE agent_kb
    /\ pc' = NextStep("patch", ids_to_delete)
    /\ UNCHANGED <<bucket, remote, nextId, srvPageLen, srvSendsCursor,
                   triggered_file_name, event_type, gcs_map, documents, next_cursor,
                   served, el_docs, i, valid_docs, ids_to_delete, j, result>>
    /\ UNCHANGED <<scratch, temp_local_filename, other>>

\* requests.patch raises: the exception leaves sync_knowledge_base.
PatchRaises ==
    /\ pc = "patch"
    /\ calls' = Append(calls, [op |-> "patch", arg |-> KbConfig(valid_docs),
                               status |-> Raised])
    /\ pc' = "aborted"
    /\ UNCHANGED <<bucket, remote, nextId, srvPageLen, srvSendsCursor, agent_kb,
                   triggered_file_name, event_type, gcs_map, documents, next_cursor,
                   served, el_docs, i, valid_docs, ids_to_delete, j, result>>
    /\ UNCHANGED <<scratch, temp_local_filename, other>>

(***************************************************************************)
(* delete_elevenlabs_doc and the loop that calls it                        *)
(***************************************************************************)
\* response.status_code == 200 or response.status_code == 204
DeleteOk(status) == status = 200 \/ status = 204

\* A mutation of ContinueDeletes: the loop ends at the first failed delete.
ContinueDeletesStopOnFailure(status, k, dels) ==
    IF DeleteOk(status) /\ k < Len(dels) THEN "delete" ELSE NextStep("delete", dels)

\* for doc_id in ids_to_delete: the status of a delete is only logged.
ContinueDeletes(status, k, dels) ==
    IF k < Len(dels) THEN "delete" ELSE NextStep("delete", dels)

Delete ==
    /\ pc = "delete"
    /\ j <= Len(ids_to_delete)
    /\ \E status \in {200, 204, 500} :
        /\ calls' = Append(calls, [op |-> "delete", arg |-> ids_to_delete[j],
                                   status |-> status])
        /\ remote' = IF DeleteOk(status) THEN Removed(remote, ids_to_delete[j]) ELSE remote
        /\ pc' = ContinueDeletes(status, j, ids_to_delete)
    /\ j' = j + 1
    /\ UNCHANGED <<bucket, nextId, srvPageLen, srvSendsCursor, agent_kb,
                   triggered_file_name, event_type, gcs_map, documents, next_cursor,
                   served, el_docs, i, valid_docs, ids_to_delete, result>>
    /\ UNCHANGED <<scratch, temp_local_filename, other>>

\* requests.delete raises: the exception leaves sync_knowledge_base.
DeleteRaises ==
    /\ pc = "delete"
    /\ j <= Len(ids_to_delete)
    /\ calls' = Append(calls, [op |-> "delete", arg |-> ids_to_delete[j],
                               status |-> Raised])
    /\ pc' = "aborted"
    /\ UNCHANGED <<bucket, remote, nextId, srvPageLen, srvSendsCursor, agent_kb,
                   triggered_file_name, event_type, gcs_map, documents, next_cursor,
                   served, el_docs, i, valid_docs, ids_to_delete, j, result>>
    /\ UNCHANGED <<scratch, temp_local_filename, other>>

\* return "Sync complete"
Return ==
    /\ pc = "return"
    /\ result' = "Sync complete"
    /\ pc' = "done"
    /\ UNCHANGED <<bucket, remote, nextId, srvPageLen, srvSendsCursor, agent_kb,
                   triggered_file_name, event_type, gcs_map, documents, next_cursor,
                   served, el_docs, i, valid_docs, ids_to_delete, j, calls>>
    /\ UNCHANGED <<scratch, temp_local_filename, other>>

(***************************************************************************)
(* The specification: one invocation of sync_knowledge_base, started with  *)
(* any bucket, any remote documents (ids 1..n, names possibly repeated),   *)
(* any event, and the agent pointing at the documents there are.           *)
(***************************************************************************)
RemoteDocs(n) ==
    {[k \in 1..n |-> [id |-> k, name |-> f[k]]] : f \in [1..n -> DocNames]}

Init ==
    /\ bucket \in SUBSET Names
    /\ \E n \in 0..MaxDocs : remote \in RemoteDocs(n)
    /\ nextId = Len(remote) + 1
    /\ srvPageLen \in PageLens
    /\ srvSendsCursor \in BOOLEAN
    /\ agent_kb = KbConfig(remote)
    /\ triggered_file_name \in Names \cup {NoName}
    /\ event_type \in EventTypes
    /\ pc = "start"
    /\ gcs_map = <<>>
    /\ documents = <<>>
    /\ next_cursor = NoCursor
    /\ served = <<>>
    /\ el_docs = <<>>
    /\ i = 1
    /\ valid_docs = <<>>
    /\ ids_to_delete = <<>>
    /\ j = 1
    /\ calls = <<>>
    /\ result = ""
    /\ scratch = {}
    /\ temp_local_filename = NoFile
    /\ other = Idle

Next ==
    \/ ListBlobs
    \/ GetPageOk
    \/ GetPageError
    \/ GetPageRaises
    \/ KeepExisting
    \/ Mkstemp
    \/ ReUpload
    \/ UploadNew
    \/ UploadRaises
    \/ MarkDeletions
    \/ Probe
    \/ Patch
    \/ PatchRaises
    \/ Delete
    \/ DeleteRaises
    \/ Return

Spec == Init /\ [][Next]_vars

(***************************************************************************)
(* Two invocations, one after the other: when the first has returned, the  *)
(* next event of the same bucket starts the second, which begins with      *)
(* fresh local state and finds the remote service and the agent as the     *)
(* first left them.  The remote service sends its cursors and fails no     *)
(* call but deletes, and no call raises.                                   *)
(***************************************************************************)
\* The local state of the running invocation.
Locals ==
    [pc |-> pc, triggered_file_name |-> triggered_file_name,
     event_type |-> event_type, gcs_map |-> gcs_map, documents |-> documents,
     next_cursor |-> next_cursor, served |-> served, el_docs |-> el_docs, i |-> i,
     valid_docs |-> valid_docs, ids_to_delete |-> ids_to_delete, j |-> j,
     calls |-> calls, result |-> result,
     temp_local_filename |-> temp_local_filename]

\* The call the step made, if it made one, was a delete or got the status 200.
OnlyDeleteFails ==
    calls' # calls =>
        \/ calls'[Len(calls')].op = "delete"
        \/ calls'[Len(calls')].status = 200

\* The next event is delivered after the invocation has returned: the
\* function is entered again, the finished invocation is kept as `other`.
NewRun ==
    /\ pc = "done"
    /\ other = Idle
    /\ other' = Locals
    /\ triggered_file_name' \in Names \cup {NoName}
    /\ event_type' \in EventTypes
    /\ pc' = "start"
    /\ gcs_map' = <<>>
    /\ documents' = <<>>
    /\ next_cursor' = NoCursor
    /\ served' = <<>>
    /\ el_docs' = <<>>
    /\ i' = 1
    /\ valid_docs' = <<>>
    /\ ids_to_delete' = <<>>
    /\ j' = 1
    /\ calls' = <<>>
    /\ result' = ""
    /\ UNCHANGED <<bucket, remote, nextId, srvPageLen, srvSendsCursor, agent_kb,
                   scratch, temp_local_filename>>

\* One document per name, as the reconciliation assumes of the remote service.
UniqueNames(docs) ==
    \A d, e \in 1..Len(docs) : docs[d].name = docs[e].name => d = e

InitRuns == Init /\ srvSendsCursor /\ UniqueNames(remote)

NextRuns ==
    \/ ListBlobs
    \/ GetPageOk
    \/ KeepExisting
    \/ Mkstemp
    \/ ReUpload /\ OnlyDeleteFails
    \/ UploadNew /\ OnlyDeleteFails
    \/ MarkDeletions
    \/ Probe /\ OnlyDeleteFails
    \/ Patch /\ OnlyDeleteFails
    \/ Delete
    \/ Return
    \/ NewRun

SpecRuns == InitRuns /\ [][NextRuns]_vars

(***************************************************************************)
(* Two overlapping invocations: a second event of the same bucket enters   *)
(* the function while the first invocation is still at its start, and the  *)
(* two take turns.  `other` is the invocation that is waiting; a turn ends *)
(* where the running invocation is about to make a remote call or has      *)
(* returned (the steps in between touch its own local state only).  Every  *)
(* remote call succeeds.                                                   *)
(***************************************************************************)
EveryCallSucceeds ==
    calls' # calls =>
        LET c == calls'[Len(calls')]
        IN  IF c.op = "delete" THEN DeleteOk(c.status) ELSE c.status = 200

\* A second event enters the function.
Arrive ==
    /\ pc = "start"
    /\ other = Idle
    /\ \E n \in Names \cup {NoName}, e \in EventTypes :
        other' = [Locals EXCEPT !.triggered_file_name = n, !.event_type = e]
    /\ UNCHANGED <<bucket, remote, nextId, srvPageLen, srvSendsCursor, agent_kb,
                   triggered_file_name, event_type, pc, gcs_map, documents,
                   next_cursor, served, el_docs, i, valid_docs, ids_to_delete, j,
                   calls, result, scratch, temp_local_filename>>

SwitchPoints == {"list", "upload", "probe", "patch", "delete", "done"}

\* The running invocation waits and the other one runs.
Switch ==
    /\ other # Idle
    /\ other.pc # "done"
    /\ pc \in SwitchPoints
    /\ other' = Locals
    /\ pc' = other.pc
    /\ triggered_file_name' = other.triggered_file_name
    /\ event_type' = other.event_type
    /\ gcs_map' = other.gcs_map
    /\ documents' = other.documents
    /\ next_cursor' = other.next_cursor
    /\ served' = other.served
    /\ el_docs' = other.el_docs
    /\ i' = other.i
    /\ valid_docs' = other.valid_docs
    /\ ids_to_delete' = other.ids_to_delete
    /\ j' = other.j
    /\ calls' = other.calls
    /\ result' = other.result
    /\ temp_local_filename' = other.temp_local_filename
    /\ UNCHANGED <<bucket, remote, nextId, srvPageLen, srvSendsCursor, agent_kb,
                   scratch>>

InitOverlap == Init /\ srvSendsCursor /\ UniqueNames(remote)

NextOverlap ==
    \/ Arrive
    \/ Switch
    \/ ListBlobs
    \/ GetPageOk
    \/ KeepExisting
    \/ Mkstemp
    \/ ReUpload /\ EveryCallSucceeds
    \/ UploadNew /\ EveryCallSucceeds
    \/ MarkDeletions
    \/ Probe /\ EveryCallSucceeds
    \/ Patch /\ EveryCallSucceeds
    \/ Delete /\ EveryCallSucceeds
    \/ Return

SpecOverlap == InitOverlap /\ [][NextOverlap]_vars

(***************************************************************************)
(* Vocabulary of the properties                                            *)
(***************************************************************************)
CallsOf(op) == {k \in 1..Len(calls) : calls[k].op = op}

\* A status the remote service answered that is not the success status.
Failed(status) == status # Raised /\ status # 200

UploadsOf(name) == {k \in CallsOf("upload") : calls[k].arg = name}

UploadFailed(name) == \E k \in UploadsOf(name) : calls[k].status # 200

UploadSucceeded(name) == \E k \in UploadsOf(name) : calls[k].status = 200

ValidOf(name) == {k \in 1..Len(valid_docs) : valid_docs[k].name = name}

ValidIds == {valid_docs[k].id : k \in 1..Len(valid_docs)}

DeletionSet == {ids_to_delete[k] : k \in 1..Len(ids_to_delete)}

AgentIds == {agent_kb[k].id : k \in 1..Len(agent_kb)}

ListedNames == {el_docs[k][1] : k \in 1..Len(el_docs)}

\* The loops of lines 179-198 have ended: valid_docs is the list that is passed
\* to update_agent_knowledge and ids_to_delete is complete.
Reconciled ==
    \/ pc \in {"probe", "patch", "delete", "return", "done"}
    \/ pc = "aborted" /\ CallsOf("probe") # {}

\* The object whose new version the run has to upload.
IsReupload(name) ==
    /\ name \in bucket
    /\ name \in ListedNames
    /\ name = triggered_file_name
    /\ event_type = FINALIZED

\* C1: the valid set passed to update_agent_knowledge holds exactly one entry
\* for each bucket name whose required upload did not fail, none for a name
\* whose upload failed, and none for a name outside the bucket.
C1_ValidSetMatchesBucket ==
    Reconciled =>
        /\ \A name \in bucket :
            Cardinality(ValidOf(name)) = IF UploadFailed(name) THEN 0 ELSE 1
        /\ \A k \in 1..Len(valid_docs) : valid_docs[k].name \in bucket

C1_Witness ==
    /\ pc = "probe"
    /\ \E n1, n2, n3 \in bucket :
        /\ UploadFailed(n1)
        /\ UploadSucceeded(n2)
        /\ n3 \in ListedNames /\ UploadsOf(n3) = {}

\* C2: at the moment of every delete_elevenlabs_doc call the agent's
\* knowledge-base list holds none of the ids marked for deletion, whatever the
\* agent PATCH answered.
C2_AgentNeverReferencesDeleted ==
    (pc = "delete" /\ j <= Len(ids_to_delete)) => AgentIds \cap DeletionSet = {}

\* C3: every upload call and the agent update (probe and PATCH) are over
\* before the first delete call, and none of them follows a delete call.
C3_UpdateBeforeDeletes ==
    /\ \A k \in CallsOf("delete") :
        /\ \E p \in CallsOf("probe") : p < k
        /\ \E p \in CallsOf("patch") : p < k
        /\ \A l \in 1..Len(calls) : l > k => calls[l].op = "delete"
    /\ (pc = "delete" => i > Len(gcs_map))

C3_Witness ==
    /\ pc = "done"
    /\ Cardinality(CallsOf("upload")) >= 2
    /\ Cardinality(CallsOf("delete")) >= 2
    /\ \E k \in CallsOf("patch") : Failed(calls[k].status)

\* C4: when the finalized trigger is in the bucket and in the listing and its
\* upload succeeds, exactly one upload is made for it, the valid set holds the
\* new id for it and not the old one, and the old id is in the deletion set.
C4_ReuploadReplacesOldId ==
    \A name \in bucket :
        (Reconciled /\ IsReupload(name) /\ UploadSucceeded(name)) =>
            /\ Cardinality(UploadsOf(name)) = 1
            /\ \A u \in UploadsOf(name) :
                /\ calls[u].ret # DictGet(el_docs, name)
                /\ {valid_docs[k].id : k \in ValidOf(name)} = {calls[u].ret}
                /\ \E d \in 1..Len(remote) :
                    remote[d].id = calls[u].ret /\ remote[d].name = Basename(name)
            /\ Cardinality(ValidOf(name)) = 1
            /\ DictGet(el_docs, name) \notin ValidIds
            /\ DictGet(el_docs, name) \in DeletionSet

C4_Witness ==
    /\ pc = "done"
    /\ \E name \in bucket : IsReupload(name) /\ UploadSucceeded(name)
    /\ Len(valid_docs) >= 2

\* C5: a name of the bucket and of the listing that is not the finalized
\* trigger keeps exactly the listed id in the valid set, gets no upload call,
\* and its id is not in the deletion set.
C5_UnchangedNamesKept ==
    \A name \in bucket :
        (Reconciled /\ name \in ListedNames /\ ~ IsReupload(name)) =>
            /\ {valid_docs[k].id : k \in ValidOf(name)} = {DictGet(el_docs, name)}
            /\ Cardinality(ValidOf(name)) = 1
            /\ UploadsOf(name) = {}
            /\ DictGet(el_docs, name) \notin DeletionSet

C5_Witness ==
    /\ pc = "done"
    /\ \E n1, n2 \in bucket \cap ListedNames :
        /\ n1 = triggered_file_name /\ event_type # FINALIZED
        /\ n2 # triggered_file_name
    /\ CallsOf("upload") # {}

\* C6: the listed id of every listed name that is no bucket name is in the
\* deletion set and gets a delete call in the run, whatever the event is.
C6_RemovedNamesDeleted ==
    \A e \in 1..Len(el_docs) :
        el_docs[e][1] \notin bucket =>
            /\ Reconciled => el_docs[e][2] \in DeletionSet
            /\ pc \in {"return", "done"} =>
                \E k \in CallsOf("delete") : calls[k].arg = el_docs[e][2]

C6_Witness ==
    /\ pc = "done"
    /\ Cardinality({el_docs[e][1] : e \in 1..Len(el_docs)} \ bucket) >= 2
    /\ triggered_file_name \in ListedNames \ bucket
    /\ event_type = FINALIZED

\* C7: when the re-upload of the finalized trigger fails, its old id is not in
\* the deletion set and is still in the agent's list after the run's agent
\* update succeeded.
C7_FailedReuploadKeepsOld ==
    \A name \in bucket :
        ( /\ IsReupload(name)
          /\ \E u \in UploadsOf(name) : Failed(calls[u].status)
          /\ \E p \in CallsOf("patch") : calls[p].status = 200 ) =>
            /\ DictGet(el_docs, name) \notin DeletionSet
            /\ DictGet(el_docs, name) \in AgentIds

AllListOk == \A k \in CallsOf("list") : calls[k].status = 200

\* get_elevenlabs_docs has just returned and no later call has changed the
\* remote documents yet.
JustListed == pc = "reconcile" /\ i = 1

RECURSIVE Flatten(_)
Flatten(pages) ==
    IF pages = <<>> THEN <<>> ELSE Head(pages).documents \o Flatten(Tail(pages))

\* The id of the last document of docs that has the given name.
LastIdOf(docs, name) ==
    LET at == {d \in 1..Len(docs) : docs[d].name = name}
    IN  docs[CHOOSE d \in at : \A e \in at : e <= d].id

\* d is the mapping of the names of docs, each to the id listed last under it.
MapsLastIds(d, docs) ==
    /\ Cardinality({d[k][1] : k \in 1..Len(d)}) = Len(d)
    /\ {d[k][1] : k \in 1..Len(d)} = {docs[n].name : n \in 1..Len(docs)}
    /\ \A k \in 1..Len(d) : d[k][2] = LastIdOf(docs, d[k][1])

\* The requests of a listing: the first without cursor, each later one with
\* the next_cursor of the answer before it.
CursorsChained ==
    /\ ListRequests # <<>> => "cursor" \notin DOMAIN ListRequests[1].arg
    /\ \A k \in 2..Len(ListRequests) :
        /\ k - 1 <= Len(served)
        /\ "cursor" \in DOMAIN ListRequests[k].arg
        /\ ListRequests[k].arg.cursor = served[k - 1].next_cursor

FailedLists == {k \in CallsOf("list") : Failed(calls[k].status)}

\* C9: a non-success status of the k-th page request ends the listing: no page
\* request follows it, the mapping returned is what pages 1..k-1 accumulated,
\* and the run goes on to reconcile with it.
C9_FailedPageReturnsPartial ==
    \A k \in FailedLists :
        /\ \A l \in CallsOf("list") : l <= k
        /\ Len(served) = Len(ListRequests) - 1
        /\ pc \notin {"start", "list"}
        /\ el_docs = documents
        /\ MapsLastIds(el_docs, Flatten(served))
        /\ pc = "aborted" => calls[Len(calls)].status = Raised

C9_Witness ==
    /\ pc = "done"
    /\ \E k \in FailedLists : k >= 2
    /\ el_docs # <<>>
    /\ CallsOf("upload") # {}

\* C10: no response status aborts the run: only a raised exception does, and a
\* run that is not aborted goes on, issues exactly one PATCH and after it one
\* delete call for each id of the deletion set, in its order, and returns
\* "Sync complete".
C10_StatusesNeverAbort ==
    /\ pc = "aborted" => calls[Len(calls)].status = Raised
    /\ pc \in {"reconcile", "upload", "probe", "patch", "delete", "return"} =>
        ENABLED Next
    /\ result # "" <=> pc = "done"
    /\ pc = "done" =>
        /\ result = "Sync complete"
        /\ Cardinality(CallsOf("patch")) = 1
        /\ Cardinality(DeletionSet) = Len(ids_to_delete)
        /\ \A p \in CallsOf("patch") :
            /\ Len(calls) = p + Len(ids_to_delete)
            /\ \A k \in 1..Len(ids_to_delete) :
                calls[p + k].op = "delete" /\ calls[p + k].arg = ids_to_delete[k]

C10_Witness ==
    /\ pc = "done"
    /\ Len(ids_to_delete) >= 2
    /\ \E k \in CallsOf("delete") : Failed(calls[k].status) /\ k < Len(calls)
    /\ \E k \in CallsOf("patch") : Failed(calls[k].status)
    /\ \E k \in CallsOf("probe") : Failed(calls[k].status)
    /\ \E k \in CallsOf("upload") : Failed(calls[k].status)

\* The ids below StartId are those of the documents the remote service had
\* when the run started: the run's uploads got the ids from StartId on.
StartId ==
    nextId - Cardinality({u \in CallsOf("upload") : calls[u].status = 200})

\* C12: in every run, also one whose listing stopped at a non-success page, a
\* bucket object whose name has a document on the remote service is uploaded
\* only if it is the finalized trigger.
C12_KnownNamesNotUploadedAgain ==
    pc = "reconcile" =>
        \A u \in CallsOf("upload") :
            (\E d \in 1..Len(remote) :
                remote[d].id < StartId /\ remote[d].name = calls[u].arg) =>
                    calls[u].arg = triggered_file_name /\ event_type = FINALIZED

\* C14: update_agent_knowledge issues exactly one PATCH, right after the probe
\* whatever the probe did (200, another status, an exception), and its body
\* lists the whole valid set in its order.
C14_ProbeNeverChangesPatch ==
    /\ Cardinality(CallsOf("probe")) <= 1
    /\ Cardinality(CallsOf("patch")) <= 1
    /\ \A q \in CallsOf("probe") :
        /\ q = Len(calls) => pc = "patch" /\ ENABLED Patch
        /\ q < Len(calls) => calls[q + 1].op = "patch"
    /\ \A p \in CallsOf("patch") :
        /\ p > 1 /\ calls[p - 1].op = "probe"
        /\ Len(calls[p].arg) = Len(valid_docs)
        /\ \A k \in 1..Len(valid_docs) :
            calls[p].arg[k] = [type |-> "file", id |-> valid_docs[k].id,
                               name |-> valid_docs[k].name, usage_mode |-> "auto"]

C14_Witness ==
    /\ pc = "done"
    /\ \E q \in CallsOf("probe") : calls[q].status = Raised
    /\ \E p \in CallsOf("patch") : calls[p].status = 200 /\ Len(calls[p].arg) >= 2
    /\ agent_kb # <<>>

NoUploadFailed == \A u \in CallsOf("upload") : calls[u].status = 200

\* Where a listed document belongs when no upload fails: in the valid set if
\* its name is a bucket name that is not the finalized trigger, in the
\* deletion set otherwise, and never in both.
InItsSet(id, name) ==
    IF name \in bucket /\ ~ (name = triggered_file_name /\ event_type = FINALIZED)
    THEN id \in ValidIds /\ id \notin DeletionSet
    ELSE id \in DeletionSet /\ id \notin ValidIds

C18_RequestsBoundedByPages ==
    (pc = "list" \/ JustListed) => Len(ListRequests) <= NumPages

\* C15: once upload_file_to_elevenlabs has left, by returning an id, by
\* returning None, or by an exception of the download or the POST, the scratch
\* file it created does not exist; it exists while the upload is under way.
C15_ScratchFileRemoved ==
    /\ pc = "upload" => temp_local_filename # NoFile /\ scratch = {temp_local_filename}
    /\ pc # "upload" => scratch = {}

C15_Witness ==
    /\ pc = "aborted"
    /\ calls[Len(calls)].op = "upload"
    /\ \E u \in CallsOf("upload") : calls[u].status = 200
    /\ \E u \in CallsOf("upload") : Failed(calls[u].status)
    /\ scratch = {}

(***************************************************************************)
(* Properties of two invocations in a row (SpecRuns): `other` is the first *)
(* invocation as it returned, the variables of the run are the second's.   *)
(***************************************************************************)
SecondRun == other.pc = "done"

RemoteIds == {remote[d].id : d \in 1..Len(remote)}

AllCallsOk(log) ==
    \A k \in 1..Len(log) :
        IF log[k].op = "delete" THEN DeleteOk(log[k].status) ELSE log[k].status = 200

\* The ids whose delete call failed in the first invocation.
FailedDeletes ==
    {other.calls[k].arg : k \in {n \in 1..Len(other.calls) :
        other.calls[n].op = "delete" /\ ~ DeleteOk(other.calls[n].status)}}

\* C11: a document whose delete call failed is removed by the next run in
\* which every remote call succeeds: that run puts its id in the deletion set
\* and deletes it.
C11_OrphanDeletedByNextRun ==
    (SecondRun /\ pc = "done" /\ AllCallsOk(calls)) =>
        \A id \in FailedDeletes :
            /\ id \in DeletionSet
            /\ \E k \in CallsOf("delete") : calls[k].arg = id
            /\ id \notin RemoteIds

\* C16: after a run in which every remote call succeeded, a second run on the
\* same bucket with a non-finalize event or no trigger name makes no upload
\* and no delete and passes the same valid set to the agent update.
C16_SecondRunChangesNothing ==
    ( /\ SecondRun
      /\ AllCallsOk(other.calls)
      /\ (triggered_file_name = NoName \/ event_type # FINALIZED)
      /\ Reconciled ) =>
        /\ CallsOf("upload") = {}
        /\ ids_to_delete = <<>>
        /\ valid_docs = other.valid_docs

(***************************************************************************)
(* Properties of two overlapping invocations (SpecOverlap).                *)
(***************************************************************************)
BothReturned == pc = "done" /\ other.pc = "done"

\* C13: with two invocations overlapping and every call succeeding, once
\* both have returned every id in the agent's knowledge-base list is the id
\* of a document that still exists on the remote service.
C13_AgentIdsExistAfterOverlap ==
    BothReturned => AgentIds \subseteq RemoteIds

====
